---------------------------- MODULE Spec2Model ----------------------------
(***************************************************************************)
(* PyHa: agreement statistics between automated and human annotations.     *)
(*                                                                         *)
(*   PyHa/statistics.py                  clip_general, clip_IoU,           *)
(*       matrix_IoU_Scores, automated_labeling_statistics,                 *)
(*       global_statistics, global_dataset_statistics                      *)
(*   PyHa/annotation_post_processing.py  annotation_chunker                *)
(*                                                                         *)
(* Times (OFFSET, DURATION, CLIP LENGTH, chunk_length) are rationals       *)
(* n / TimeDen seconds and are stored as the integer n.  A DataFrame is a  *)
(* sequence of rows, a row a record; a column name's blank is written "_". *)
(* File and folder names are sequences of one-character strings.  A call   *)
(* that raises yields a record whose exc field names the exception.        *)
(***************************************************************************)
EXTENDS Integers, Sequences, FiniteSets, TLC

VARIABLES
    pc,              \* position of the running call
    automated_df,    \* table of automated annotations
    manual_df,       \* table of human annotations
    stats_type,      \* "IoU" or "general"
    threshold,       \* IoU threshold, in 1/IoUScale
    IoU_Matrix,      \* result of clip_IoU
    clip_stats_df,   \* result of matrix_IoU_Scores / clip_general
    statistics_df,   \* rows accumulated by automated_labeling_statistics
    num_errors,      \* automated_labeling_statistics: failed clips
    num_processed,   \* automated_labeling_statistics: visited clips
    global_df,       \* result of global_statistics / global_dataset_statistics
    kaleidoscope_df, \* input of annotation_chunker
    chunk_length,    \* annotation_chunker: chunk length (time units)
    output_df,       \* result of annotation_chunker
    local_scoress,   \* local-score curve of every clip, by file name
    target_array,    \* targets handed to the ROC computation
    confidence_scores_array, \* confidences handed to the ROC computation
    exception        \* what ended the ROC call before roc_curve, or "none"

vars == <<pc, automated_df, manual_df, stats_type, threshold, IoU_Matrix,
          clip_stats_df, statistics_df, num_errors, num_processed,
          global_df, kaleidoscope_df, chunk_length, output_df,
          local_scoress, target_array, confidence_scores_array, exception>>

roc_vars == <<local_scoress, target_array, confidence_scores_array, exception>>

---------------------------------------------------------------------------
(* Bounds of the model *)

\* time resolution: one time unit is 1/TimeDen second
TimeDen == 3
\* longest clip, in time units
MaxClipLen == 3
\* largest sample rate (Hz)
MaxSampleRate == 2
\* most rows of the two tables of one clip together
MaxClipRows == 3
\* most rows of the two tables of a dataset together
MaxDatasetRows == 3
\* most rows of a table of per-clip statistics handed to the aggregation
MaxStatsRows == 2
\* largest confusion count of such a row
MaxCount == 1
\* most rows of the table handed to annotation_chunker
MaxChunkRows == 2
\* longest chunk length, in time units
MaxChunkLen == 7
\* samples of a local-score curve
MaxScores == 2

(* Program constants *)

\* round(x, 4): IoU, precision, recall and F1 are kept to 4 decimals
IoUScale == 10000
\* round(x, 6) of global_dataset_statistics
DatasetScale == 1000000
\* annotation_chunker rasterizes at one sample per millisecond
MsPerSec == 1000

---------------------------------------------------------------------------
(* Python arithmetic *)

Min(a, b) == IF a <= b THEN a ELSE b
Max(a, b) == IF a >= b THEN a ELSE b

\* int(n / d) for n >= 0, d > 0: truncation
Trunc(n, d) == n \div d

\* round(n / d, 0) for n >= 0, d > 0: Python rounds a tie to the even integer
RoundHalfEven(n, d) ==
    LET q == n \div d
        r == n % d
    IN  IF 2 * r < d THEN q
        ELSE IF 2 * r > d THEN q + 1
        ELSE IF q % 2 = 0 THEN q ELSE q + 1

RECURSIVE Gcd(_, _)
Gcd(a, b) == IF b = 0 THEN a ELSE Gcd(b, a % b)

\* an exact Python float quotient n / d (d > 0), in lowest terms
Frac(n, d) == LET g == Gcd(n, d) IN <<n \div g, d \div g>>
FMul(x, y) == Frac(x[1] * y[1], x[2] * y[2])
FAdd(x, y) == Frac(x[1] * y[2] + y[1] * x[2], x[2] * y[2])
\* x / y for y # 0
FDiv(x, y) == Frac(x[1] * y[2], x[2] * y[1])
FZero == <<0, 1>>

SetMax(S) == CHOOSE m \in S : \A x \in S : x <= m

Range(s) == {s[i] : i \in 1..Len(s)}

---------------------------------------------------------------------------
(* Rasterization of one annotation row, shared by clip_IoU and clip_general *)

\* int(duration * SAMPLE_RATE), read from row 0 of the automated table
ArrayLen(df) == Trunc(df[1].CLIP_LENGTH * df[1].SAMPLE_RATE, TimeDen)

\* minval = int(round(OFFSET * SAMPLE_RATE, 0))
MinVal(row, sr) == RoundHalfEven(row.OFFSET * sr, TimeDen)
\* maxval rounded up to the next sample instead of to the nearest
MaxVal_ceil(row, sr) ==
    ((row.OFFSET + row.DURATION) * sr + TimeDen - 1) \div TimeDen
\* maxval = int(round((OFFSET + DURATION) * SAMPLE_RATE, 0))
MaxVal(row, sr) == RoundHalfEven((row.OFFSET + row.DURATION) * sr, TimeDen)

\* arr[minval:maxval] = 1 on an array of n zeros: the indices set to 1
\* (a slice is clipped to the array)
Pulse(row, sr, n) == {k \in 0..(n - 1) : MinVal(row, sr) <= k /\ k < MaxVal(row, sr)}


---------------------------------------------------------------------------
(* clip_IoU: statistics.py 327-409 *)

\* "c in df.columns" for every c of cols.  A table is a sequence of row
\* records, so the columns of a table without rows are not recorded: every
\* column counts as present there (the rows of a clip are then missing and
\* the call raises on its first read of row 0 instead).
HasColumns(df, cols) == \A i \in 1..Len(df) : cols \subseteq DOMAIN df[i]

\* the shared samples divided by the samples of the human label alone
IoUEntry_of_human(h, b) ==
    LET inter == Cardinality(h \cap b)
    IN  IF inter = 0 THEN 0
        ELSE RoundHalfEven(inter * IoUScale, Cardinality(h))

\* one entry of the matrix: the matmul count of shared samples, divided by
\* the count of the logical OR and rounded to 4 decimals unless it is 0
\* (np.nan_to_num then finds no NaN to replace: 0 is never divided)
IoUEntry(h, b) ==
    LET inter == Cardinality(h \cap b)
    IN  IF inter = 0 THEN 0
        ELSE RoundHalfEven(inter * IoUScale, Cardinality(h \cup b))

\* the (human rows) x (automated rows) matrix, or the exception raised
clip_IoU(a_df, m_df) ==
    IF \/ ~HasColumns(a_df, {"CLIP_LENGTH", "SAMPLE_RATE", "OFFSET"})
       \/ ~HasColumns(m_df, {"CLIP_LENGTH", "SAMPLE_RATE", "OFFSET"})
    THEN [exc |-> "AssertionError", matrix |-> <<>>]  \* the column asserts
    ELSE IF a_df = <<>>
    THEN [exc |-> "IndexError", matrix |-> <<>>]      \* to_list()[0]
    ELSE IF ~HasColumns(a_df, {"DURATION"}) \/ ~HasColumns(m_df, {"DURATION"})
    THEN [exc |-> "KeyError", matrix |-> <<>>]        \* df["DURATION"][row]
    ELSE LET sr == a_df[1].SAMPLE_RATE
             n  == ArrayLen(a_df)
             bot_arr   == [j \in 1..Len(a_df) |-> Pulse(a_df[j], sr, n)]
             human_arr == [i \in 1..Len(m_df) |-> Pulse(m_df[i], sr, n)]
         IN  [exc |-> "none",
              matrix |-> [i \in 1..Len(m_df) |->
                            [j \in 1..Len(a_df) |->
                               IoUEntry(human_arr[i], bot_arr[j])]]]

---------------------------------------------------------------------------
(* matrix_IoU_Scores: statistics.py 411-487 *)

\* np.max(IoU_Matrix, axis=1)[i] and np.max(IoU_Matrix, axis=0)[j]
RowMax(M, i) == SetMax({M[i][j] : j \in 1..Len(M[i])})
ColMax(M, j) == SetMax({M[i][j] : i \in 1..Len(M)})

\* automated_label_best_fits[automated_label_best_fits >= threshold].shape[0]
TpCount(M, thr) == Cardinality({i \in 1..Len(M) : RowMax(M, i) >= thr})
\* automated_label_best_fits[automated_label_best_fits < threshold].shape[0]
FnCount(M, thr) == Cardinality({i \in 1..Len(M) : RowMax(M, i) < thr})
\* false positives counted as the columns with some entry below the threshold
FpCount_any(M, thr) ==
    Cardinality({j \in 1..Len(M[1]) : \E i \in 1..Len(M) : M[i][j] < thr})
\* false positives counted along the other axis of the matrix
FpCount_axis(M, thr) == Cardinality({i \in 1..Len(M) : RowMax(M, i) < thr})
\* max_val_per_column[max_val_per_column < threshold].shape[0]
FpCount(M, thr) == Cardinality({j \in 1..Len(M[1]) : ColMax(M, j) < thr})

\* the try block: recall and precision are rounded first, F1 is computed
\* from the rounded values; a ZeroDivisionError sets all three to 0
IoUMetrics(tp, fn, fp) ==
    IF tp + fn = 0 \/ tp + fp = 0
    THEN [PRECISION |-> 0, RECALL |-> 0, F1 |-> 0]
    ELSE LET recall    == RoundHalfEven(tp * IoUScale, tp + fn)
             precision == RoundHalfEven(tp * IoUScale, tp + fp)
         IN  IF recall + precision = 0
             THEN [PRECISION |-> 0, RECALL |-> 0, F1 |-> 0]
             ELSE [PRECISION |-> precision, RECALL |-> recall,
                   F1 |-> RoundHalfEven(2 * recall * precision,
                                        recall + precision)]

NoRow == [FOLDER |-> <<>>, IN_FILE |-> <<>>, MANUAL_ID |-> "",
          TRUE_POSITIVE |-> 0, FALSE_NEGATIVE |-> 0, FALSE_POSITIVE |-> 0,
          PRECISION |-> 0, RECALL |-> 0, F1 |-> 0]

\* entry: the row of the table returned
ScoresEntry(folder, file, id, tp, fn, fp) ==
    LET m == IoUMetrics(tp, fn, fp)
    IN  [FOLDER |-> folder, IN_FILE |-> file, MANUAL_ID |-> id,
         TRUE_POSITIVE |-> tp, FALSE_NEGATIVE |-> fn, FALSE_POSITIVE |-> fp,
         PRECISION |-> m.PRECISION, RECALL |-> m.RECALL, F1 |-> m.F1]

\* the one-row table returned, or the exception raised
matrix_IoU_Scores(M, m_df, thr) ==
    IF ~HasColumns(m_df, {"MANUAL_ID", "FOLDER", "IN_FILE"})
    THEN [exc |-> "AssertionError", row |-> NoRow] \* the column asserts
    ELSE IF m_df = <<>>
    THEN [exc |-> "KeyError", row |-> NoRow]       \* manual_df["MANUAL ID"][0]
    ELSE IF M = <<>> \/ M[1] = <<>>
    THEN [exc |-> "ValueError", row |-> NoRow]     \* np.max of a zero-size array
    ELSE LET tp == TpCount(M, thr)
             fn == FnCount(M, thr)
             fp == FpCount(M, thr)
         IN  [exc |-> "none",
              row |-> ScoresEntry(m_df[1].FOLDER, m_df[1].IN_FILE,
                                  m_df[1].MANUAL_ID, tp, fn, fp)]

---------------------------------------------------------------------------
(* clip_general: statistics.py 61-183 *)

\* the array left by the last row alone, as if a row erased the rows before
Timeline_last(df, sr, n) ==
    IF df = <<>> THEN {} ELSE Pulse(df[Len(df)], sr, n)

\* bot_arr / human_arr: every row of the table set into one binary array
Timeline(df, sr, n) == UNION {Pulse(df[i], sr, n) : i \in 1..Len(df)}

\* the try block on the counts (sample counts; each is divided by
\* SAMPLE_RATE, which cancels in every ratio): any ZeroDivisionError sets
\* all four metrics to 0
GeneralMetrics(tp, fp, fn, un) ==
    LET zero == [PRECISION |-> FZero, RECALL |-> FZero, F1 |-> FZero,
                 Global_IoU |-> FZero]
    IN  IF tp + fp = 0 \/ tp + fn = 0 THEN zero
        ELSE LET precision == Frac(tp, tp + fp)
                 recall    == Frac(tp, tp + fn)
             IN  IF FAdd(recall, precision)[1] = 0 \/ un = 0 THEN zero
                 ELSE [PRECISION |-> precision, RECALL |-> recall,
                       F1 |-> FDiv(FMul(<<2, 1>>, FMul(recall, precision)),
                                   FAdd(recall, precision)),
                       Global_IoU |-> Frac(tp, un)]

NoGeneralRow == [FOLDER |-> <<>>, IN_FILE |-> <<>>, MANUAL_ID |-> "",
                 SAMPLE_RATE |-> 1, TRUE_POSITIVE |-> 0, FALSE_POSITIVE |-> 0,
                 FALSE_NEGATIVE |-> 0, TRUE_NEGATIVE |-> 0, UNION_ |-> 0,
                 PRECISION |-> FZero, RECALL |-> FZero, F1 |-> FZero,
                 Global_IoU |-> FZero]

\* entry: the row of the table returned
GeneralEntry(folder, file, id, sr, tp, fp, fn, tn, un) ==
    LET m == GeneralMetrics(tp, fp, fn, un)
    IN  [FOLDER |-> folder, IN_FILE |-> file, MANUAL_ID |-> id,
         SAMPLE_RATE |-> sr, TRUE_POSITIVE |-> tp, FALSE_POSITIVE |-> fp,
         FALSE_NEGATIVE |-> fn, TRUE_NEGATIVE |-> tn, UNION_ |-> un,
         PRECISION |-> m.PRECISION, RECALL |-> m.RECALL, F1 |-> m.F1,
         Global_IoU |-> m.Global_IoU]

\* clip_general without the except branch: a zero denominator is raised
clip_general_raising(a_df, h_df) ==
    IF h_df = <<>> \/ a_df = <<>>
    THEN [exc |-> "IndexError", row |-> NoGeneralRow]
    ELSE LET sr == a_df[1].SAMPLE_RATE
             n  == ArrayLen(a_df)
             bot_arr   == Timeline(a_df, sr, n)
             human_arr == Timeline(h_df, sr, n)
             tp == Cardinality(human_arr \cap bot_arr)
             fn == Cardinality(human_arr \ bot_arr)
             fp == Cardinality(bot_arr \ human_arr)
             tn == Cardinality(((0..(n - 1)) \ human_arr) \ bot_arr)
             un == Cardinality(human_arr \cup bot_arr)
         IN  IF tp = 0
             THEN [exc |-> "ZeroDivisionError", row |-> NoGeneralRow]
             ELSE [exc |-> "none",
                   row |-> GeneralEntry(a_df[1].FOLDER, a_df[1].IN_FILE,
                                        h_df[1].MANUAL_ID, sr, tp, fp, fn, tn, un)]

\* the one-row table returned, or the exception raised.  TRUE_POSITIVE ...
\* UNION_ hold sample counts; the seconds of the code are count / SAMPLE_RATE
clip_general(a_df, h_df) ==
    IF \/ ~HasColumns(a_df, {"MANUAL_ID", "CLIP_LENGTH", "SAMPLE_RATE"})
       \/ ~HasColumns(h_df, {"MANUAL_ID", "CLIP_LENGTH", "SAMPLE_RATE"})
    THEN [exc |-> "AssertionError", row |-> NoGeneralRow]  \* the column asserts
    ELSE IF h_df = <<>> \/ a_df = <<>>
    THEN [exc |-> "IndexError", row |-> NoGeneralRow]   \* list(...)[0]
    ELSE IF \/ ~HasColumns(a_df, {"FOLDER", "IN_FILE", "OFFSET", "DURATION"})
            \/ ~HasColumns(h_df, {"OFFSET", "DURATION"})
    THEN [exc |-> "KeyError", row |-> NoGeneralRow]     \* df[column]
    ELSE LET sr == a_df[1].SAMPLE_RATE
             n  == ArrayLen(a_df)
             all == 0..(n - 1)
             bot_arr   == Timeline(a_df, sr, n)
             human_arr == Timeline(h_df, sr, n)
             tp == Cardinality(human_arr \cap bot_arr)
             fn == Cardinality(human_arr \ bot_arr)
             fp == Cardinality(bot_arr \ human_arr)
             tn == Cardinality((all \ human_arr) \ bot_arr)
             un == Cardinality(human_arr \cup bot_arr)
         IN  [exc |-> "none",
              row |-> GeneralEntry(a_df[1].FOLDER, a_df[1].IN_FILE,
                                   h_df[1].MANUAL_ID, sr, tp, fp, fn, tn, un)]

---------------------------------------------------------------------------
(* Inputs: the annotation rows of one clip *)

\* thresholds tried (0 < threshold < 1, in 1/IoUScale); 0.5 is the default
Thresholds == {2500, 5000, 7500}

Row(folder, file, len, sr, off, dur, id) ==
    [FOLDER |-> folder, IN_FILE |-> file, CLIP_LENGTH |-> len,
     SAMPLE_RATE |-> sr, OFFSET |-> off, DURATION |-> dur, MANUAL_ID |-> id]

\* the rows a clip of length len can hold: OFFSET >= 0, DURATION > 0,
\* OFFSET + DURATION <= CLIP LENGTH
ClipRows(folder, file, len, sr, id) ==
    UNION {{Row(folder, file, len, sr, off, dur, id) :
              dur \in 1..(len - off)} : off \in 0..(len - 1)}

Tables(rows, n) == [1..n -> rows]

Dir == <<"d">>
Wav == <<"a", ".", "w">>

\* the example clip of 10 s at 1 Hz: human [0,1] and [5,6], automated [0,10]
ExampleLen == 10 * TimeDen
ExampleAutomated ==
    <<Row(Dir, Wav, ExampleLen, 1, 0, 10 * TimeDen, "bird")>>
ExampleManual ==
    <<Row(Dir, Wav, ExampleLen, 1, 0, TimeDen, "bird"),
      Row(Dir, Wav, ExampleLen, 1, 5 * TimeDen, TimeDen, "bird")>>

NoMatrix == [exc |-> "none", matrix |-> <<>>]
NoStats == [exc |-> "none", row |-> NoRow]

\* the variables a specification does not use
IdleStats ==
    /\ stats_type = "IoU"
    /\ statistics_df = <<>>
    /\ num_errors = 0
    /\ num_processed = 0
IdleGlobal == global_df = <<>>
IdleChunker ==
    /\ kaleidoscope_df = <<>>
    /\ chunk_length = 0
    /\ output_df = <<>>
IdleClip ==
    /\ threshold = 5000
    /\ IoU_Matrix = NoMatrix
    /\ clip_stats_df = NoStats
IdleROC ==
    /\ local_scoress = <<>>
    /\ target_array = <<>>
    /\ confidence_scores_array = <<>>
    /\ exception = "none"

---------------------------------------------------------------------------
(* SpecIoU: the per-clip computations on the two tables of one clip *)

InitIoU ==
    /\ IdleROC
    /\ pc = "start"
    /\ \/ \E len \in 1..MaxClipLen, sr \in 1..MaxSampleRate :
            \E na \in 1..MaxClipRows :
              \E nm \in 0..(MaxClipRows - na) :
                /\ Trunc(len * sr, TimeDen) >= 1     \* the clip holds a sample
                /\ automated_df \in Tables(ClipRows(Dir, Wav, len, sr, "bird"), na)
                /\ manual_df \in Tables(ClipRows(Dir, Wav, len, sr, "bird"), nm)
       \/ /\ automated_df = ExampleAutomated
          /\ manual_df = ExampleManual
    /\ IdleClip
    /\ IdleStats
    /\ IdleGlobal
    /\ IdleChunker

\* IoU_Matrix = clip_IoU(clip_automated_df, clip_manual_df)
ClipIoU ==
    /\ pc = "start"
    /\ IoU_Matrix' = clip_IoU(automated_df, manual_df)
    /\ pc' = "matrix"
    /\ UNCHANGED <<automated_df, manual_df, stats_type, threshold,
                   clip_stats_df, statistics_df, num_errors, num_processed,
                   global_df, kaleidoscope_df, chunk_length, output_df>>
    /\ UNCHANGED roc_vars

\* clip_stats_df = matrix_IoU_Scores(IoU_Matrix, clip_manual_df, threshold)
MatrixIoUScores ==
    /\ pc = "matrix"
    /\ IoU_Matrix.exc = "none"
    /\ \E thr \in Thresholds :
         /\ threshold' = thr
         /\ clip_stats_df' = matrix_IoU_Scores(IoU_Matrix.matrix, manual_df, thr)
    /\ pc' = "scored"
    /\ UNCHANGED <<automated_df, manual_df, stats_type, IoU_Matrix,
                   statistics_df, num_errors, num_processed,
                   global_df, kaleidoscope_df, chunk_length, output_df>>
    /\ UNCHANGED roc_vars

\* clip_stats_df = clip_general(clip_automated_df, clip_manual_df)
ClipGeneral ==
    /\ pc = "start"
    /\ clip_stats_df' = clip_general(automated_df, manual_df)
    /\ pc' = "general"
    /\ UNCHANGED <<automated_df, manual_df, stats_type, threshold, IoU_Matrix,
                   statistics_df, num_errors, num_processed,
                   global_df, kaleidoscope_df, chunk_length, output_df>>
    /\ UNCHANGED roc_vars

NextIoU == ClipIoU \/ MatrixIoUScores \/ ClipGeneral

SpecIoU == InitIoU /\ [][NextIoU]_vars

---------------------------------------------------------------------------
(* Properties of the per-clip computations (SpecIoU) *)

Scored == pc = "scored" /\ clip_stats_df.exc = "none"
Generalized == pc = "general" /\ clip_stats_df.exc = "none"
HasMatrix == pc = "matrix" /\ IoU_Matrix.exc = "none"

\* C3: for an R x C IoU matrix and a threshold, matrix_IoU_Scores returns
\* TP = the human rows with some entry >= threshold, FN = the human rows
\* with every entry < threshold, FP = the automated columns with every entry
\* < threshold; so TP + FN = R and FP <= C.
C3_BestFitCounts ==
    Scored =>
        LET M == IoU_Matrix.matrix
            R == Len(M)
            C == Len(M[1])
            row == clip_stats_df.row
        IN  /\ row.TRUE_POSITIVE =
                 Cardinality({i \in 1..R : \E j \in 1..C : M[i][j] >= threshold})
            /\ row.FALSE_NEGATIVE =
                 Cardinality({i \in 1..R : \A j \in 1..C : M[i][j] < threshold})
            /\ row.FALSE_POSITIVE =
                 Cardinality({j \in 1..C : \A i \in 1..R : M[i][j] < threshold})
            /\ row.TRUE_POSITIVE + row.FALSE_NEGATIVE = R
            /\ row.FALSE_POSITIVE <= C

\* a clip with a matched human label and an unmatched automated label
C3_Witness ==
    /\ Scored
    /\ clip_stats_df.row.TRUE_POSITIVE >= 1
    /\ clip_stats_df.row.FALSE_POSITIVE >= 1

IsExample ==
    /\ automated_df = ExampleAutomated
    /\ manual_df = ExampleManual
    /\ threshold = 5000

\* C4 as stated: human [0,1] and [5,6], automated [0,10], threshold 0.5
\* give FN = 2, TP = 0 and FP = 0.
C4_ExampleAsStated ==
    (Scored /\ IsExample) =>
        /\ clip_stats_df.row.FALSE_NEGATIVE = 2
        /\ clip_stats_df.row.TRUE_POSITIVE = 0
        /\ clip_stats_df.row.FALSE_POSITIVE = 0

\* C4 amended: on that clip both IoU values are 0.1 and the counts are
\* FN = 2, TP = 0 and FP = 1: the one automated label, whose best fit 0.1 is
\* below 0.5, is a false positive.
C4_ExampleCounts ==
    (pc = "scored" /\ IsExample) =>
        /\ clip_stats_df.exc = "none"
        /\ IoU_Matrix.matrix = <<
             <<1000>>, <<1000>> >>
        /\ clip_stats_df.row.FALSE_NEGATIVE = 2
        /\ clip_stats_df.row.TRUE_POSITIVE = 0
        /\ clip_stats_df.row.FALSE_POSITIVE = 1

\* the example clip, scored at threshold 0.5
C4_Witness == Scored /\ IsExample /\ Len(IoU_Matrix.matrix) = 2

Labelled(df, s) ==
    \E i \in 1..Len(df) :
        /\ MinVal(df[i], automated_df[1].SAMPLE_RATE) <= s
        /\ s < MaxVal(df[i], automated_df[1].SAMPLE_RATE)

\* the samples of the clip
Samples == 0..(ArrayLen(automated_df) - 1)

\* C21: clip_general returns TP, FN, FP, TN and Union equal to the number of
\* samples where human and bot, human and not bot, not human and bot, neither,
\* and human or bot hold (a sample under several rows of one side counts
\* once), each over the sample rate; so TP + FN + FP + TN is the sample count
\* of the clip and Union = TP + FN + FP.
C21_SampleCounts ==
    Generalized =>
        LET row == clip_stats_df.row
            human(s) == Labelled(manual_df, s)
            bot(s) == Labelled(automated_df, s)
        IN  /\ row.SAMPLE_RATE = automated_df[1].SAMPLE_RATE
            /\ row.TRUE_POSITIVE =
                   Cardinality({s \in Samples : human(s) /\ bot(s)})
            /\ row.FALSE_NEGATIVE =
                   Cardinality({s \in Samples : human(s) /\ ~bot(s)})
            /\ row.FALSE_POSITIVE =
                   Cardinality({s \in Samples : ~human(s) /\ bot(s)})
            /\ row.TRUE_NEGATIVE =
                   Cardinality({s \in Samples : ~human(s) /\ ~bot(s)})
            /\ row.UNION_ =
                   Cardinality({s \in Samples : human(s) \/ bot(s)})
            /\ row.TRUE_POSITIVE + row.FALSE_NEGATIVE + row.FALSE_POSITIVE
                   + row.TRUE_NEGATIVE = Cardinality(Samples)
            /\ row.UNION_ = row.TRUE_POSITIVE + row.FALSE_NEGATIVE
                   + row.FALSE_POSITIVE

\* a clip with a sample of human and bot and a sample of bot alone, where two
\* automated rows cover a common sample and the last automated row does not
\* cover every sample the automated rows cover
C21_Witness ==
    /\ Generalized
    /\ clip_stats_df.row.TRUE_POSITIVE >= 1
    /\ clip_stats_df.row.FALSE_POSITIVE >= 1
    /\ Len(automated_df) >= 2
    /\ \E s \in Samples :
           /\ MinVal(automated_df[1], automated_df[1].SAMPLE_RATE) <= s
           /\ s < MaxVal(automated_df[1], automated_df[1].SAMPLE_RATE)
           /\ MinVal(automated_df[2], automated_df[1].SAMPLE_RATE) <= s
           /\ s < MaxVal(automated_df[2], automated_df[1].SAMPLE_RATE)
    /\ \E s \in Samples :
           /\ Labelled(automated_df, s)
           /\ ~(/\ MinVal(automated_df[Len(automated_df)],
                          automated_df[1].SAMPLE_RATE) <= s
                /\ s < MaxVal(automated_df[Len(automated_df)],
                              automated_df[1].SAMPLE_RATE))


\* the intervals of two rows share no instant of positive length
Disjoint(r1, r2) ==
    \/ r1.OFFSET + r1.DURATION <= r2.OFFSET
    \/ r2.OFFSET + r2.DURATION <= r1.OFFSET

\* C7: every entry of the matrix of clip_IoU lies in [0, 1], and the entry
\* of a human row and an automated row whose intervals are disjoint is 0.
C7_RangeAndDisjoint ==
    HasMatrix =>
        \A i \in 1..Len(manual_df) : \A j \in 1..Len(automated_df) :
            /\ 0 <= IoU_Matrix.matrix[i][j]
            /\ IoU_Matrix.matrix[i][j] <= IoUScale
            /\ Disjoint(manual_df[i], automated_df[j]) =>
                   IoU_Matrix.matrix[i][j] = 0

\* a matrix with the entry of a disjoint pair and a partial overlap
C7_Witness ==
    /\ HasMatrix
    /\ \E i \in 1..Len(manual_df) : \E j \in 1..Len(automated_df) :
           Disjoint(manual_df[i], automated_df[j])
    /\ \E i \in 1..Len(manual_df) : \E j \in 1..Len(automated_df) :
           /\ 0 < IoU_Matrix.matrix[i][j]
           /\ IoU_Matrix.matrix[i][j] < IoUScale

SameInterval(r1, r2) ==
    r1.OFFSET = r2.OFFSET /\ r1.DURATION = r2.DURATION

\* C8 as stated: IoU(a, a) = 1 for every interval a of positive duration,
\* intervals shorter than one sample period included.
C8_SelfIoUAsStated ==
    HasMatrix =>
        \A i \in 1..Len(manual_df) : \A j \in 1..Len(automated_df) :
            SameInterval(manual_df[i], automated_df[j]) =>
                IoU_Matrix.matrix[i][j] = IoUScale

\* C9: with the roles of the two tables swapped, clip_IoU returns the
\* transpose.
C9_SwapTranspose ==
    (HasMatrix /\ manual_df # <<>>) =>
        LET swapped == clip_IoU(manual_df, automated_df)
        IN  /\ swapped.exc = "none"
            /\ Len(swapped.matrix) = Len(automated_df)
            /\ \A i \in 1..Len(manual_df) : \A j \in 1..Len(automated_df) :
                   /\ Len(swapped.matrix[j]) = Len(manual_df)
                   /\ swapped.matrix[j][i] = IoU_Matrix.matrix[i][j]

\* two tables of different sizes with a partial overlap
C9_Witness ==
    /\ HasMatrix
    /\ Len(manual_df) > Len(automated_df)
    /\ \E i \in 1..Len(manual_df) : \E j \in 1..Len(automated_df) :
           /\ 0 < IoU_Matrix.matrix[i][j]
           /\ IoU_Matrix.matrix[i][j] < IoUScale

---------------------------------------------------------------------------
(* automated_labeling_statistics: statistics.py 188-286 *)

\* list(dict.fromkeys(column)): the distinct values in order of first
\* appearance
RECURSIVE Unique(_)
Unique(s) ==
    IF s = <<>> THEN <<>>
    ELSE LET rest == Unique(SubSeq(s, 1, Len(s) - 1))
         IN  IF s[Len(s)] \in Range(rest) THEN rest
             ELSE Append(rest, s[Len(s)])

\* clips = list(dict.fromkeys(automated_df["IN FILE"].to_list()))
Clips(a_df) == Unique([i \in 1..Len(a_df) |-> a_df[i].IN_FILE])

\* ".".join(clip.split(".")[:-1]): the text before the last "."; the empty
\* string when the name holds no "."
Stem(clip) ==
    LET dots == {i \in 1..Len(clip) : clip[i] = "."}
    IN  IF dots = {} THEN <<>> ELSE SubSeq(clip, 1, SetMax(dots) - 1)

\* str.startswith
StartsWith(name, prefix) ==
    /\ Len(prefix) <= Len(name)
    /\ SubSeq(name, 1, Len(prefix)) = prefix

\* clip_automated_df = automated_df[automated_df["IN FILE"] == clip]
ClipAutomated(a_df, clip) == SelectSeq(a_df, LAMBDA r : r.IN_FILE = clip)

\* clip_manual_df = manual_df[manual_df["IN FILE"].str.startswith(stem)]
ClipManual(m_df, clip) ==
    SelectSeq(m_df, LAMBDA r : StartsWith(r.IN_FILE, Stem(clip)))

\* the body of the try block: the one-row table of the clip, or the
\* exception the clip's computation raises
ClipStats(type, a_df, m_df, thr) ==
    IF type = "general" THEN clip_general(a_df, m_df)
    ELSE LET iou == clip_IoU(a_df, m_df)
         IN  IF iou.exc # "none" THEN [exc |-> iou.exc, row |-> NoRow]
             ELSE matrix_IoU_Scores(iou.matrix, m_df, thr)

\* what follows the loop: the message of line 284 is built by adding the
\* integer num_errors to a string, which raises TypeError before checkVerbose
\* is called; with no error the table is returned
AfterLoop(errors) == IF errors > 0 THEN "TypeError" ELSE "returned"

---------------------------------------------------------------------------
(* SpecStats: automated_labeling_statistics on the tables of a dataset *)

\* file names of the dataset: a.w, a.m (same stem, other extension),
\* ab.w (a longer name) and b (no extension)
FileNames ==
    {<<"a", ".", "w">>, <<"a", ".", "m">>, <<"a", "b", ".", "w">>, <<"b">>}

\* a second folder, with a file of the same name as a file of the first
Dir2 == <<"e">>

\* every clip is 2 s long at 1 Hz; a label covers the first second of the
\* clip, or the second one in the files a.w and a.m and in the second folder
DatasetRows ==
    {Row(Dir, file, 2 * TimeDen, 1, 0, TimeDen, "bird") : file \in FileNames}
    \cup {Row(Dir, file, 2 * TimeDen, 1, TimeDen, TimeDen, "bird") :
        file \in {f \in FileNames : Len(f) = Len(Wav)}}
    \cup {Row(Dir2, Wav, 2 * TimeDen, 1, TimeDen, TimeDen, "bird")}

\* the table without a column
DropColumn(df, col) ==
    [i \in 1..Len(df) |-> [f \in DOMAIN df[i] \ {col} |-> df[i][f]]]

\* the columns a table handed to the call may lack ("" stands for none)
DroppedFromAutomated == {"", "SAMPLE_RATE", "MANUAL_ID"}
DroppedFromManual == {"", "OFFSET", "MANUAL_ID"}

InitStats ==
    /\ IdleROC
    /\ pc = "loop"
    /\ \E na \in 1..MaxDatasetRows :
         \E nm \in 1..(MaxDatasetRows - na) :
           \E a_df \in Tables(DatasetRows, na), m_df \in Tables(DatasetRows, nm) :
             \/ /\ manual_df = m_df
                /\ \E col \in DroppedFromAutomated :
                       automated_df = DropColumn(a_df, col)
             \/ /\ automated_df = a_df
                /\ \E col \in DroppedFromManual :
                       manual_df = DropColumn(m_df, col)
    /\ stats_type \in {"IoU", "general"}
    /\ statistics_df = <<>>
    /\ num_errors = 0
    /\ num_processed = 0
    /\ IdleClip
    /\ IdleGlobal
    /\ IdleChunker

\* an iteration whose except branch skips the clip without counting it
ProcessClip_uncounted ==
    /\ pc = "loop"
    /\ num_processed < Len(Clips(automated_df))
    /\ LET clip == Clips(automated_df)[num_processed + 1]
           clip_automated_df == ClipAutomated(automated_df, clip)
           clip_manual_df == ClipManual(manual_df, clip)
           clip_stats == ClipStats(stats_type, clip_automated_df,
                                   clip_manual_df, threshold)
       IN  /\ num_processed' = num_processed + 1
           /\ num_errors' = num_errors
           /\ IF clip_stats.exc = "none"
              THEN statistics_df' = Append(statistics_df, clip_stats.row)
              ELSE statistics_df' = statistics_df
    /\ UNCHANGED <<pc, automated_df, manual_df, stats_type, threshold,
                   IoU_Matrix, clip_stats_df, global_df, kaleidoscope_df,
                   chunk_length, output_df>>
    /\ UNCHANGED roc_vars

\* one iteration of "for clip in clips"
ProcessClip ==
    /\ pc = "loop"
    /\ num_processed < Len(Clips(automated_df))
    /\ LET clip == Clips(automated_df)[num_processed + 1]
           clip_automated_df == ClipAutomated(automated_df, clip)
           clip_manual_df == ClipManual(manual_df, clip)
           clip_stats == ClipStats(stats_type, clip_automated_df,
                                   clip_manual_df, threshold)
       IN  /\ num_processed' = num_processed + 1
           /\ IF clip_stats.exc = "none"
              THEN /\ statistics_df' = Append(statistics_df, clip_stats.row)
                   /\ num_errors' = num_errors
              ELSE /\ statistics_df' = statistics_df       \* except: continue
                   /\ num_errors' = num_errors + 1
    /\ UNCHANGED <<pc, automated_df, manual_df, stats_type, threshold,
                   IoU_Matrix, clip_stats_df, global_df, kaleidoscope_df,
                   chunk_length, output_df>>
    /\ UNCHANGED roc_vars

\* the end of the loop: the report of the errors and the return
Report ==
    /\ pc = "loop"
    /\ num_processed = Len(Clips(automated_df))
    /\ pc' = AfterLoop(num_errors)
    /\ UNCHANGED <<automated_df, manual_df, stats_type, threshold, IoU_Matrix,
                   clip_stats_df, statistics_df, num_errors, num_processed,
                   global_df, kaleidoscope_df, chunk_length, output_df>>
    /\ UNCHANGED roc_vars

NextStats == ProcessClip \/ Report

SpecStats == InitStats /\ [][NextStats]_vars

---------------------------------------------------------------------------
(* Properties of automated_labeling_statistics (SpecStats) *)

\* the clips whose statistics computation fails
FailingClips ==
    {k \in 1..Len(Clips(automated_df)) :
        ClipStats(stats_type,
                  ClipAutomated(automated_df, Clips(automated_df)[k]),
                  ClipManual(manual_df, Clips(automated_df)[k]),
                  threshold).exc # "none"}

\* C1: whatever clips fail, the run ends by returning the statistics table:
\* each failing clip is counted once and skipped, every other clip has its
\* row, and no exception leaves the call.
C1_RunCompletes ==
    (pc # "loop") =>
        /\ pc = "returned"
        /\ num_processed = Len(Clips(automated_df))
        /\ num_errors = Cardinality(FailingClips)
        /\ Len(statistics_df) = Len(Clips(automated_df)) - Cardinality(FailingClips)

\* a run in which one clip failed and another did not
C1_Witness ==
    /\ pc # "loop"
    /\ num_errors >= 1
    /\ Len(statistics_df) >= 1

\* the text of a file name before its final "." extension; the whole name
\* when it has no extension
NameStem(name) == IF "." \in Range(name) THEN Stem(name) ELSE name

\* the manual rows that belong to a clip: those of the file of that name or,
\* when there is none, those of the files with the clip's stem
RowsOfClip(m_df, clip) ==
    IF \E i \in 1..Len(m_df) : m_df[i].IN_FILE = clip
    THEN SelectSeq(m_df, LAMBDA r : r.IN_FILE = clip)
    ELSE SelectSeq(m_df, LAMBDA r : NameStem(r.IN_FILE) = NameStem(clip))

\* C15: the manual rows paired with an automated clip are exactly those
\* whose file name equals the clip's or, when no name is equal, whose stem
\* equals the clip's stem; rows of a file with another stem (a longer name
\* that begins with the clip's stem, any file when the clip's name has no
\* extension) are never paired with the clip.  Stated of the clip the loop
\* has just processed.
C15_PairingByStem ==
    (num_processed >= 1) =>
        LET clip == Clips(automated_df)[num_processed]
        IN  ClipManual(manual_df, clip) = RowsOfClip(manual_df, clip)

\* C23: a clip is the pair (folder, file): the automated rows that
\* automated_labeling_statistics rasterizes together as one clip agree on
\* FOLDER and IN FILE, and the manual rows it compares them with are rows of
\* the same folder.  Stated of the clip the loop has just processed, in a
\* run where every clip so far got its row of statistics.
C23_ClipIsFolderAndFile ==
    (num_processed >= 1 /\ num_errors = 0) =>
        LET clip == Clips(automated_df)[num_processed]
            clip_automated_df == ClipAutomated(automated_df, clip)
            clip_manual_df == ClipManual(manual_df, clip)
        IN  /\ \A i, j \in 1..Len(clip_automated_df) :
                   /\ clip_automated_df[i].FOLDER = clip_automated_df[j].FOLDER
                   /\ clip_automated_df[i].IN_FILE = clip_automated_df[j].IN_FILE
            /\ \A i \in 1..Len(clip_automated_df) :
                   \A j \in 1..Len(clip_manual_df) :
                       clip_automated_df[i].FOLDER = clip_manual_df[j].FOLDER

\* the clips among the first n of the loop whose computation fails
FailedAmong(n) == {k \in FailingClips : k <= n}

\* C24: after every iteration of the clip loop of
\* automated_labeling_statistics, the rows of the statistics table plus
\* num_errors equal num_processed, the number of clips visited so far; each
\* visited clip has contributed one row or one error, never both and never
\* neither.
C24_RowsPlusErrors ==
    /\ Len(statistics_df) + num_errors = num_processed
    /\ num_processed <= Len(Clips(automated_df))
    /\ num_errors = Cardinality(FailedAmong(num_processed))
    /\ Len(statistics_df) = num_processed - Cardinality(FailedAmong(num_processed))

\* the loop after two clips, one that got its row and one that failed
C24_Witness ==
    /\ pc = "loop"
    /\ num_processed = 2
    /\ num_errors = 1
    /\ Len(statistics_df) = 1

\* the columns a table of annotations must have
RequiredColumns ==
    {"FOLDER", "IN_FILE", "CLIP_LENGTH", "SAMPLE_RATE", "OFFSET", "DURATION",
     "MANUAL_ID"}

\* C20: when a required column is missing from an input table of
\* automated_labeling_statistics the call fails before any clip is
\* processed: no clip is processed, and none is counted as a failed clip.
C20_FailFast ==
    (~HasColumns(automated_df, RequiredColumns)
        \/ ~HasColumns(manual_df, RequiredColumns)) =>
            /\ num_processed = 0
            /\ num_errors = 0
            /\ statistics_df = <<>>

---------------------------------------------------------------------------
(* numpy scalars: the sums of a column are numpy numbers, whose division by
   zero gives nan or inf (with a RuntimeWarning) and raises nothing *)

Num(x) == [kind |-> "num", val |-> x]
NaN == [kind |-> "nan", val |-> FZero]
Inf == [kind |-> "inf", val |-> FZero]

IsZero(x) == x.kind = "num" /\ x.val[1] = 0

NpAdd(x, y) ==
    IF x.kind = "nan" \/ y.kind = "nan" THEN NaN
    ELSE IF x.kind = "inf" \/ y.kind = "inf" THEN Inf
    ELSE Num(FAdd(x.val, y.val))

NpMul(x, y) ==
    IF x.kind = "nan" \/ y.kind = "nan" THEN NaN
    ELSE IF x.kind = "inf" \/ y.kind = "inf"
    THEN IF IsZero(x) \/ IsZero(y) THEN NaN ELSE Inf
    ELSE Num(FMul(x.val, y.val))

NpDiv(x, y) ==
    IF x.kind = "nan" \/ y.kind = "nan" THEN NaN
    ELSE IF x.kind = "inf" THEN (IF y.kind = "inf" THEN NaN ELSE Inf)
    ELSE IF y.kind = "inf" THEN Num(FZero)
    ELSE IF IsZero(y) THEN (IF IsZero(x) THEN NaN ELSE Inf)
    ELSE Num(FDiv(x.val, y.val))

\* round(x, digits) with scale = 10^digits: the value in 1/scale; nan and
\* inf stay what they are
NpRound(x, scale) ==
    IF x.kind = "num"
    THEN [kind |-> "num", val |-> RoundHalfEven(x.val[1] * scale, x.val[2])]
    ELSE [kind |-> x.kind, val |-> 0]

---------------------------------------------------------------------------
(* global_statistics: statistics.py 657-711
   global_dataset_statistics: statistics.py 289-325 *)

\* a count of a row of per-clip statistics, in the unit of its column: a
\* number of labels (matrix_IoU_Scores) or seconds (clip_general)
Count(row, c) ==
    IF "SAMPLE_RATE" \in DOMAIN row THEN Frac(c, row.SAMPLE_RATE)
    ELSE Frac(c, 1)

\* the last number of the sequence in place of the sum
Sum_last(col) ==
    IF col = <<>> THEN FZero ELSE col[Len(col)]

\* sum of a sequence of numbers
RECURSIVE Sum(_)
Sum(col) ==
    IF col = <<>> THEN FZero
    ELSE FAdd(Sum(SubSeq(col, 1, Len(col) - 1)), col[Len(col)])

\* statistics_df[name].sum()
ColumnSum(df, name) ==
    Sum([i \in 1..Len(df) |-> Count(df[i], df[i][name])])

NoGlobal == [PRECISION |-> NaN, RECALL |-> NaN, F1 |-> NaN]

\* the mean over the rows of a per-clip metric
ColumnMean(df, name) ==
    FDiv(Sum([i \in 1..Len(df) |->
                 IF "SAMPLE_RATE" \in DOMAIN df[i] THEN df[i][name]
                 ELSE Frac(df[i][name], IoUScale)]),
         <<Len(df), 1>>)

\* global_statistics averaging the per-clip metrics instead of dividing the
\* summed counts
global_statistics_macro(df) ==
    IF df = <<>>
    THEN [exc |-> "AssertionError", row |-> NoGlobal]
    ELSE [exc |-> "none",
          row |-> [TRUE_POSITIVE |-> ColumnSum(df, "TRUE_POSITIVE"),
                   FALSE_NEGATIVE |-> ColumnSum(df, "FALSE_NEGATIVE"),
                   FALSE_POSITIVE |-> ColumnSum(df, "FALSE_POSITIVE"),
                   PRECISION |-> NpRound(Num(ColumnMean(df, "PRECISION")), IoUScale),
                   RECALL |-> NpRound(Num(ColumnMean(df, "RECALL")), IoUScale),
                   F1 |-> NpRound(Num(ColumnMean(df, "F1")), IoUScale)]]

\* precision, recall and F1 of the summed counts.  The sums are numpy
\* scalars, so a zero denominator raises no ZeroDivisionError: the except
\* branch is never taken and the quotient is nan.
global_statistics(df) ==
    IF df = <<>>
    THEN [exc |-> "AssertionError", row |-> NoGlobal]  \* pd.DataFrame(): no column
    ELSE LET tp_sum == ColumnSum(df, "TRUE_POSITIVE")
             fn_sum == ColumnSum(df, "FALSE_NEGATIVE")
             fp_sum == ColumnSum(df, "FALSE_POSITIVE")
             precision == NpDiv(Num(tp_sum), Num(FAdd(tp_sum, fp_sum)))
             recall == NpDiv(Num(tp_sum), Num(FAdd(tp_sum, fn_sum)))
             f1 == NpDiv(NpMul(Num(<<2, 1>>), NpMul(precision, recall)),
                         NpAdd(precision, recall))
         IN  [exc |-> "none",
              row |-> [TRUE_POSITIVE |-> tp_sum,
                       FALSE_NEGATIVE |-> fn_sum,
                       FALSE_POSITIVE |-> fp_sum,
                       PRECISION |-> NpRound(precision, IoUScale),
                       RECALL |-> NpRound(recall, IoUScale),
                       F1 |-> NpRound(f1, IoUScale)]]

\* the same from the table of clip_general, with Global IoU and 6 decimals;
\* there is no try block
global_dataset_statistics(df) ==
    IF df = <<>> \/ "TRUE_NEGATIVE" \notin DOMAIN df[1]
    THEN [exc |-> "AssertionError", row |-> NoGlobal]  \* a column is missing
    ELSE LET tp_sum == ColumnSum(df, "TRUE_POSITIVE")
             fp_sum == ColumnSum(df, "FALSE_POSITIVE")
             fn_sum == ColumnSum(df, "FALSE_NEGATIVE")
             union_sum == ColumnSum(df, "UNION_")
             precision == NpDiv(Num(tp_sum), Num(FAdd(tp_sum, fp_sum)))
             recall == NpDiv(Num(tp_sum), Num(FAdd(tp_sum, fn_sum)))
             f1 == NpDiv(NpMul(Num(<<2, 1>>), NpMul(precision, recall)),
                         NpAdd(precision, recall))
             IoU == NpDiv(Num(tp_sum), Num(union_sum))
         IN  [exc |-> "none",
              row |-> [PRECISION |-> NpRound(precision, DatasetScale),
                       RECALL |-> NpRound(recall, DatasetScale),
                       F1 |-> NpRound(f1, DatasetScale),
                       Global_IoU |-> NpRound(IoU, DatasetScale)]]

---------------------------------------------------------------------------
(* SpecAgg: the aggregation of a table of per-clip statistics *)

\* the rows matrix_IoU_Scores returns: at least one human label, and with no
\* true positive every automated label (there is one) is a false positive
IoUStatsRows ==
    {ScoresEntry(Dir, Wav, "bird", tp, fn, fp) :
        tp \in 1..MaxCount, fn \in 0..MaxCount, fp \in 0..MaxCount}
    \cup {ScoresEntry(Dir, Wav, "bird", 0, fn, fp) :
        fn \in 1..MaxCount, fp \in 1..MaxCount}

\* the rows clip_general returns for a clip at 1 Hz (a clip holds a sample)
GeneralStatsRows ==
    {GeneralEntry(Dir, Wav, "bird", 1, tp, fp, fn,
                  IF tp + fp + fn = 0 THEN 1 ELSE 0, tp + fp + fn) :
        tp \in 0..MaxCount, fp \in 0..MaxCount, fn \in 0..MaxCount}

InitAgg ==
    /\ IdleROC
    /\ pc = "start"
    /\ \E n \in 1..MaxStatsRows :
         \/ statistics_df \in Tables(IoUStatsRows, n)
         \/ statistics_df \in Tables(GeneralStatsRows, n)
    /\ global_df = [exc |-> "none", row |-> NoGlobal]
    /\ automated_df = <<>>
    /\ manual_df = <<>>
    /\ stats_type = "IoU"
    /\ num_errors = 0
    /\ num_processed = 0
    /\ IdleClip
    /\ IdleChunker

\* global_statistics(statistics_df)
GlobalStatistics ==
    /\ pc = "start"
    /\ global_df' = global_statistics(statistics_df)
    /\ pc' = "global"
    /\ UNCHANGED <<automated_df, manual_df, stats_type, threshold, IoU_Matrix,
                   clip_stats_df, statistics_df, num_errors, num_processed,
                   kaleidoscope_df, chunk_length, output_df>>
    /\ UNCHANGED roc_vars

\* global_dataset_statistics(statistics_df)
GlobalDatasetStatistics ==
    /\ pc = "start"
    /\ global_df' = global_dataset_statistics(statistics_df)
    /\ pc' = "dataset"
    /\ UNCHANGED <<automated_df, manual_df, stats_type, threshold, IoU_Matrix,
                   clip_stats_df, statistics_df, num_errors, num_processed,
                   kaleidoscope_df, chunk_length, output_df>>
    /\ UNCHANGED roc_vars

NextAgg == GlobalStatistics \/ GlobalDatasetStatistics

SpecAgg == InitAgg /\ [][NextAgg]_vars

---------------------------------------------------------------------------
(* Properties of the aggregation (SpecAgg) *)

Aggregated == pc \in {"global", "dataset"} /\ global_df.exc = "none"

\* totals of the confusion counts over all rows
TotalTP == ColumnSum(statistics_df, "TRUE_POSITIVE")
TotalFP == ColumnSum(statistics_df, "FALSE_POSITIVE")
TotalFN == ColumnSum(statistics_df, "FALSE_NEGATIVE")

\* v (a numpy number in 1/scale) is the quotient n / d rounded to 1/scale
IsRounded(v, n, d, scale) ==
    /\ v.kind = "num"
    /\ 2 * (v.val * d - scale * n) <= d
    /\ 2 * (scale * n - v.val * d) <= d

\* the numerator of a total over the common denominator of the three totals
Over(x) == (x[1] * (TotalTP[2] * TotalFP[2] * TotalFN[2])) \div x[2]

\* the mean of the per-clip values of a metric, rounded as the result is
MeanOfClips(name) ==
    LET col == [i \in 1..Len(statistics_df) |->
                   Frac(statistics_df[i][name], IoUScale)]
        mean == FDiv(Sum(col), <<Len(statistics_df), 1>>)
    IN  RoundHalfEven(mean[1] * IoUScale, mean[2])

\* C2: global_statistics and global_dataset_statistics return the precision,
\* recall and F1 of the summed counts: TP / (TP + FP), TP / (TP + FN) and
\* 2 TP / (2 TP + FP + FN) of the column sums, rounded; global_statistics
\* returns the sums themselves.
C2_MicroAverage ==
    Aggregated =>
        LET tp == Over(TotalTP)
            fp == Over(TotalFP)
            fn == Over(TotalFN)
            scale == IF pc = "global" THEN IoUScale ELSE DatasetScale
            row == global_df.row
        IN  /\ tp + fp > 0 => IsRounded(row.PRECISION, tp, tp + fp, scale)
            /\ tp + fn > 0 => IsRounded(row.RECALL, tp, tp + fn, scale)
            /\ tp > 0 => IsRounded(row.F1, 2 * tp, 2 * tp + fp + fn, scale)
            /\ pc = "global" =>
                   /\ row.TRUE_POSITIVE = TotalTP
                   /\ row.FALSE_POSITIVE = TotalFP
                   /\ row.FALSE_NEGATIVE = TotalFN

\* a table of matrix_IoU_Scores rows on which the mean of the per-clip
\* precision and the mean of the per-clip F1 differ from the result
C2_Witness ==
    /\ pc = "global"
    /\ global_df.exc = "none"
    /\ "SAMPLE_RATE" \notin DOMAIN statistics_df[1]
    /\ global_df.row.PRECISION.kind = "num"
    /\ global_df.row.F1.kind = "num"
    /\ global_df.row.PRECISION.val # MeanOfClips("PRECISION")
    /\ global_df.row.F1.val # MeanOfClips("F1")

\* the orders of n rows
Orders(n) == {p \in [1..n -> 1..n] : \A i, j \in 1..n : p[i] = p[j] => i = j}

\* the rows of the table whose position is in S, in the order of the table
Part(df, S) ==
    LET RECURSIVE Take(_)
        Take(n) == IF n = 0 THEN <<>>
                   ELSE IF n \in S THEN Append(Take(n - 1), df[n])
                   ELSE Take(n - 1)
    IN  Take(Len(df))

\* the count sums of a part of the table, as one confusion row (the counts
\* of the tables are whole numbers, so the sums are)
PartSums(df, S) ==
    LET g == global_statistics(Part(df, S)).row
    IN  ScoresEntry(Dir, Wav, "bird", g.TRUE_POSITIVE[1],
                    g.FALSE_NEGATIVE[1], g.FALSE_POSITIVE[1])

Zero == [kind |-> "num", val |-> 0]

\* C6: when a denominator of the summed counts is zero (TP + FP = 0 or
\* TP + FN = 0 over all rows), global_statistics and
\* global_dataset_statistics return precision, recall and F1 equal to 0 and
\* raise nothing.
C6_ZeroSumsGiveZero ==
    (pc \in {"global", "dataset"}
        /\ (Over(TotalTP) + Over(TotalFP) = 0 \/ Over(TotalTP) + Over(TotalFN) = 0)) =>
        /\ global_df.exc = "none"
        /\ global_df.row.PRECISION = Zero
        /\ global_df.row.RECALL = Zero
        /\ global_df.row.F1 = Zero

---------------------------------------------------------------------------
(* annotation_chunker: annotation_post_processing.py 9-87 *)

\* kaleidoscope_df["FOLDER"] + kaleidoscope_df["IN FILE"]
Filepath(row) == row.FOLDER \o row.IN_FILE

\* the table after the FILEPATH column is assigned
WithFilepath(df) ==
    [i \in 1..Len(df) |->
        [f \in DOMAIN df[i] \cup {"FILEPATH"} |->
            IF f = "FILEPATH" THEN Filepath(df[i]) ELSE df[i][f]]]

RECURSIVE Flatten(_)
Flatten(ss) ==
    IF ss = <<>> THEN <<>>
    ELSE Flatten(SubSeq(ss, 1, Len(ss) - 1)) \o ss[Len(ss)]

\* potential_annotation_count = int(clip_len) // int(chunk_length)
ChunkCount(clip_len, cl) == Trunc(clip_len, TimeDen) \div Trunc(cl, TimeDen)

\* arr_len = int(clip_len * 1000)
ChunkArrLen(clip_len) == Trunc(clip_len * MsPerSec, TimeDen)

\* int(chunk_start), chunk_start = index * (chunk_length * 1000)
ChunkStart(index, cl) == Trunc(index * cl * MsPerSec, TimeDen)

\* int(chunk_end), chunk_end = min((index + 1) * chunk_length * 1000, arr_len)
ChunkEnd(index, cl, arr_len) ==
    Min(Trunc((index + 1) * cl * MsPerSec, TimeDen), arr_len)

\* max(chunk) >= 0.5: a millisecond of the chunk lies in human_arr[minval:maxval]
\* of some annotation of the species
ChunkPositive(species_df, index, cl, arr_len) ==
    \E i \in 1..Len(species_df) :
        LET minval == RoundHalfEven(species_df[i].OFFSET * MsPerSec, TimeDen)
            maxval == RoundHalfEven(
                (species_df[i].OFFSET + species_df[i].DURATION) * MsPerSec,
                TimeDen)
        IN  Max(minval, ChunkStart(index, cl))
                < Min(maxval, ChunkEnd(index, cl, arr_len))

\* the rows of one species of one clip, in the order of the chunks
SpeciesChunks(clip_df, bird, cl) ==
    LET species_df == SelectSeq(clip_df, LAMBDA r : r.MANUAL_ID = bird)
        clip_len == clip_df[1].CLIP_LENGTH
        arr_len == ChunkArrLen(clip_len)
    IN  Flatten([k \in 1..ChunkCount(clip_len, cl) |->
            IF ChunkPositive(species_df, k - 1, cl, arr_len)
            THEN <<[FOLDER |-> clip_df[1].FOLDER,
                    IN_FILE |-> clip_df[1].IN_FILE,
                    CLIP_LENGTH |-> clip_len,
                    OFFSET |-> (k - 1) * cl,
                    DURATION |-> cl,
                    SAMPLE_RATE |-> clip_df[1].SAMPLE_RATE,
                    MANUAL_ID |-> bird,
                    CHANNEL |-> 0]>>
            ELSE <<>>])

\* the pass without the test that skips a clip shorter than chunk_length
ClipChunks_noskip(clip_df, cl) ==
    LET clip_len == clip_df[1].CLIP_LENGTH
        arr_len == ChunkArrLen(clip_len)
        birds == Unique([i \in 1..Len(clip_df) |-> clip_df[i].MANUAL_ID])
    IN  IF Trunc(cl, TimeDen) = 0
        THEN [exc |-> "ZeroDivisionError", rows |-> <<>>]
        ELSE IF \E k \in 1..ChunkCount(clip_len, cl) :
                    ChunkStart(k - 1, cl) >= ChunkEnd(k - 1, cl, arr_len)
        THEN [exc |-> "ValueError", rows |-> <<>>]
        ELSE [exc |-> "none",
              rows |-> Flatten([b \in 1..Len(birds) |->
                          SpeciesChunks(clip_df, birds[b], cl)])]

\* one pass of the loop over the clips: the rows added, or the exception
ClipChunks(clip_df, cl) ==
    LET clip_len == clip_df[1].CLIP_LENGTH
        arr_len == ChunkArrLen(clip_len)
        birds == Unique([i \in 1..Len(clip_df) |-> clip_df[i].MANUAL_ID])
    IN  IF clip_len < cl THEN [exc |-> "none", rows |-> <<>>]
        ELSE IF Trunc(cl, TimeDen) = 0
        THEN [exc |-> "ZeroDivisionError", rows |-> <<>>]
        ELSE IF \E k \in 1..ChunkCount(clip_len, cl) :
                    ChunkStart(k - 1, cl) >= ChunkEnd(k - 1, cl, arr_len)
        THEN [exc |-> "ValueError", rows |-> <<>>]  \* max() of an empty chunk
        ELSE [exc |-> "none",
              rows |-> Flatten([b \in 1..Len(birds) |->
                          SpeciesChunks(clip_df, birds[b], cl)])]

\* the table returned, or the first exception raised
annotation_chunker(df, cl) ==
    LET clips == Unique([i \in 1..Len(df) |-> Filepath(df[i])])
        passes == [c \in 1..Len(clips) |->
                     ClipChunks(SelectSeq(df, LAMBDA r : Filepath(r) = clips[c]),
                                cl)]
        raised == {c \in 1..Len(clips) : passes[c].exc # "none"}
    IN  IF raised # {}
        THEN [exc |-> passes[CHOOSE c \in raised : \A d \in raised : c <= d].exc,
              rows |-> <<>>]
        ELSE [exc |-> "none",
              rows |-> Flatten([c \in 1..Len(clips) |-> passes[c].rows])]

---------------------------------------------------------------------------
(* SpecChunk: one call of annotation_chunker *)

Wav2 == <<"b", ".", "w">>
ShortClip == (MaxClipLen - 1) * TimeDen
LongClip == MaxClipLen * TimeDen

\* annotations of one time unit in a short clip of two species ("bird"
\* anywhere, "frog" at the even time units) and in a long clip of one species
\* (at the even time units)
KaleidoscopeRows ==
    {Row(Dir, Wav, ShortClip, 1, off, 1, "bird") : off \in 0..(ShortClip - 1)}
    \cup {Row(Dir, Wav, ShortClip, 1, off, 1, "frog") :
        off \in {t \in 0..(ShortClip - 1) : t % 2 = 0}}
    \cup {Row(Dir, Wav2, LongClip, MaxSampleRate, off, 1, "bird") :
        off \in {t \in 0..(LongClip - 1) : t % 2 = 0}}

\* chunk lengths of 1, 2, ... time units: fractional and whole seconds
ChunkLengths == 1..MaxChunkLen

InitChunk ==
    /\ IdleROC
    /\ pc = "start"
    /\ \E n \in 1..MaxChunkRows : kaleidoscope_df \in Tables(KaleidoscopeRows, n)
    /\ chunk_length \in ChunkLengths
    /\ output_df = [exc |-> "none", rows |-> <<>>]
    /\ automated_df = <<>>
    /\ manual_df = <<>>
    /\ global_df = <<>>
    /\ IdleStats
    /\ IdleClip

\* output_df = annotation_chunker(kaleidoscope_df, chunk_length)
AnnotationChunker ==
    /\ pc = "start"
    /\ kaleidoscope_df' = WithFilepath(kaleidoscope_df)
    /\ output_df' = annotation_chunker(kaleidoscope_df, chunk_length)
    /\ pc' = "chunked"
    /\ UNCHANGED <<automated_df, manual_df, stats_type, threshold, IoU_Matrix,
                   clip_stats_df, statistics_df, num_errors, num_processed,
                   global_df, chunk_length>>
    /\ UNCHANGED roc_vars

NextChunk == AnnotationChunker

SpecChunk == InitChunk /\ [][NextChunk]_vars

---------------------------------------------------------------------------
(* Properties of annotation_chunker (SpecChunk) *)

Chunked == pc = "chunked" /\ output_df.exc = "none"

\* C10: every row returned by annotation_chunker has DURATION = chunk_length,
\* OFFSET = k * chunk_length for an integer k >= 0, OFFSET + DURATION <=
\* CLIP LENGTH, CHANNEL = 0, and the FOLDER, IN FILE, CLIP LENGTH and SAMPLE
\* RATE of a clip of the input, for any chunk_length > 0.
C10_ChunkRows ==
    Chunked =>
        \A i \in 1..Len(output_df.rows) :
            LET row == output_df.rows[i]
            IN  /\ row.DURATION = chunk_length
                /\ \E k \in 0..row.CLIP_LENGTH : row.OFFSET = k * chunk_length
                /\ row.OFFSET + row.DURATION <= row.CLIP_LENGTH
                /\ row.CHANNEL = 0
                /\ \E j \in 1..Len(kaleidoscope_df) :
                       /\ kaleidoscope_df[j].FOLDER = row.FOLDER
                       /\ kaleidoscope_df[j].IN_FILE = row.IN_FILE
                       /\ kaleidoscope_df[j].CLIP_LENGTH = row.CLIP_LENGTH
                       /\ kaleidoscope_df[j].SAMPLE_RATE = row.SAMPLE_RATE

\* the rows of the clip of row r, and the clips of the table by their first row
ClipOf(df, r) == SelectSeq(df, LAMBDA x : Filepath(x) = Filepath(r))
SourceClips == {ClipOf(kaleidoscope_df, kaleidoscope_df[i]) :
                   i \in 1..Len(kaleidoscope_df)}

\* C11: for every clip with clip_length >= chunk_length and any chunk_length
\* > 0, integer or fractional, annotation_chunker examines exactly
\* floor(clip_length / chunk_length) windows, at offsets 0, chunk_length,
\* ...: the call returns, and no row lies in the tail after the last whole
\* window.
C11_WindowCount ==
    (pc = "chunked") =>
        \A clip_df \in SourceClips :
            LET clip_len == clip_df[1].CLIP_LENGTH
                windows == clip_len \div chunk_length
            IN  clip_len >= chunk_length =>
                    /\ output_df.exc = "none"
                    /\ ChunkCount(clip_len, chunk_length) = windows
                    /\ \A i \in 1..Len(output_df.rows) :
                           output_df.rows[i].IN_FILE = clip_df[1].IN_FILE =>
                               \E k \in 0..(windows - 1) :
                                   output_df.rows[i].OFFSET = k * chunk_length

\* the clips of the table shorter than chunk_length
ShortClips == {clip_df \in SourceClips : clip_df[1].CLIP_LENGTH < chunk_length}

\* C12: a clip whose clip_length is smaller than chunk_length has no row in
\* the result, for any class, and the other clips are processed as if the
\* short clip were not in the table.
C12_ShortClipSkipped ==
    (pc = "chunked") =>
        /\ output_df.exc = "none" =>
               \A clip_df \in ShortClips : \A i \in 1..Len(output_df.rows) :
                   \/ output_df.rows[i].FOLDER # clip_df[1].FOLDER
                   \/ output_df.rows[i].IN_FILE # clip_df[1].IN_FILE
        /\ output_df =
               annotation_chunker(
                   SelectSeq(kaleidoscope_df,
                       LAMBDA r : ClipOf(kaleidoscope_df, r) \notin ShortClips),
                   chunk_length)

\* a short clip that is skipped while the clip after it in the table gets
\* a row
C12_Witness ==
    /\ pc = "chunked"
    /\ output_df.exc = "none"
    /\ Len(kaleidoscope_df) = 2
    /\ ClipOf(kaleidoscope_df, kaleidoscope_df[1]) \in ShortClips
    /\ Len(output_df.rows) = 1
    /\ output_df.rows[1].IN_FILE = kaleidoscope_df[2].IN_FILE

\* some instant of the interval [OFFSET, OFFSET + DURATION) of an annotation
\* row lies in the window [k * chunk_length, (k + 1) * chunk_length).  The
\* rows and the windows of the model start and end on whole time units, so
\* the two overlap by at least a time unit (many milliseconds) or not at all.
InstantInWindow(row, k) ==
    /\ row.OFFSET < (k + 1) * chunk_length
    /\ row.OFFSET + row.DURATION > k * chunk_length

\* the rows of the result for a clip, a class and a window
RowsFor(clip_df, bird, k) ==
    {i \in 1..Len(output_df.rows) :
        /\ output_df.rows[i].FOLDER = clip_df[1].FOLDER
        /\ output_df.rows[i].IN_FILE = clip_df[1].IN_FILE
        /\ output_df.rows[i].MANUAL_ID = bird
        /\ output_df.rows[i].OFFSET = k * chunk_length}

\* C13: for every clip, class c and examined window k there is exactly one
\* row for (c, k) if a millisecond instant of some class-c interval of the
\* clip lies in [k * chunk_length, (k + 1) * chunk_length), and no row
\* otherwise, whatever the annotations of the other classes are.
C13_PerClassWindows ==
    Chunked =>
        \A clip_df \in SourceClips \ ShortClips :
            \A c \in {clip_df[i].MANUAL_ID : i \in 1..Len(clip_df)} :
                \A k \in 0..(ChunkCount(clip_df[1].CLIP_LENGTH, chunk_length) - 1) :
                    Cardinality(RowsFor(clip_df, c, k)) =
                        IF \E i \in 1..Len(clip_df) :
                               /\ clip_df[i].MANUAL_ID = c
                               /\ InstantInWindow(clip_df[i], k)
                        THEN 1 ELSE 0

\* C14: chunking is idempotent: annotation_chunker applied with the same
\* chunk_length to the table it returned returns the same rows.
C14_Idempotent ==
    Chunked => annotation_chunker(output_df.rows, chunk_length) = output_df


----------------------------------------------------------------------------
(* The ROC curves: convert_label_to_local_score, get_target_annotations,
   get_confidence_array, generate_ROC_curves, generate_ROC_curves_raw_local *)

\* the characters of the names, in the order Python compares them
Alphabet == <<".", "a", "b", "d", "m", "w">>
CharRank(c) == CHOOSE i \in 1..Len(Alphabet) : Alphabet[i] = c

\* a < b on strings
RECURSIVE LexLess(_, _)
LexLess(a, b) ==
    IF b = <<>> THEN FALSE
    ELSE IF a = <<>> THEN TRUE
    ELSE IF a[1] = b[1] THEN LexLess(Tail(a), Tail(b))
    ELSE CharRank(a[1]) < CharRank(b[1])

\* x < y on the tuples (FOLDER, IN FILE)
ItemLess(x, y) ==
    \/ LexLess(x[1], y[1])
    \/ x[1] = y[1] /\ LexLess(x[2], y[2])

RECURSIVE SortItems(_)
SortItems(S) ==
    IF S = {} THEN <<>>
    ELSE LET m == CHOOSE x \in S : \A y \in S \ {x} : ItemLess(x, y)
         IN  <<m>> \o SortItems(S \ {m})

\* np.unique(df.set_index(["FOLDER", "IN FILE"]).index): the clips of the
\* table, sorted, each once
UniqueIndex(df) ==
    SortItems({<<df[i].FOLDER, df[i].IN_FILE>> : i \in 1..Len(df)})

\* df[(df["FOLDER"] == item[0]) & (df["IN FILE"] == item[1])]
ItemRows(df, item) ==
    SelectSeq(df, LAMBDA r : r.FOLDER = item[1] /\ r.IN_FILE = item[2])

\* df.sort_values(by="IN FILE"); the rows of one file keep their order in the
\* tables of this size
SortByFile(df) ==
    LET files == SortItems({<<df[i].IN_FILE, <<>>>> : i \in 1..Len(df)})
    IN  Flatten([f \in 1..Len(files) |->
            SelectSeq(df, LAMBDA r : r.IN_FILE = files[f][1])])

\* df[df["IN FILE"].isin(other["IN FILE"].to_list())]
InFilesOf(df, other) ==
    SelectSeq(df, LAMBDA r : r.IN_FILE \in {other[i].IN_FILE : i \in 1..Len(other)})

\* some row has OFFSET <= current_seconds <= OFFSET + DURATION, where
\* current_seconds = i * (duration / size)
AnnotationsAtTime(df, i, duration, size) ==
    \E r \in 1..Len(df) :
        /\ df[r].OFFSET * size <= i * duration
        /\ (df[r].OFFSET + df[r].DURATION) * size >= i * duration

\* convert_label_to_local_score(manual_df, size_of_local_score)
convert_label_to_local_score(m_df, size_of_local_score) ==
    [n \in 1..size_of_local_score |->
        IF AnnotationsAtTime(m_df, n - 1, m_df[1].CLIP_LENGTH,
                             size_of_local_score)
        THEN 1 ELSE 0]

\* get_target_annotations(chunked_manual_df, chunk_size)
get_target_annotations(chunked_manual_df, chunk_size) ==
    LET items == UniqueIndex(chunked_manual_df)
        clip_duration(k) ==
            ItemRows(chunked_manual_df, items[k])[1].CLIP_LENGTH
        number_of_chunks(k) == clip_duration(k) \div chunk_size
    IN  [target_score_array |->
            Flatten([k \in 1..Len(items) |->
                convert_label_to_local_score(
                    ItemRows(chunked_manual_df, items[k]),
                    number_of_chunks(k))]),
         chunk_size_list |->
            [k \in 1..Len(items) |->
                <<number_of_chunks(k), clip_duration(k), items[k][2]>>]]

\* the chunk length, in seconds, that get_confidence_array divides the
\* duration of a clip by
ConfidenceChunk == 3

\* the loop variable i of get_confidence_array before its first assignment
Unbound == -1

\* the body of "for i in range(0, num_chunks * chunk_length, chunk_length)"
\* for one clip: the maximum found in every window, or the exception
WindowScores(local_score_clip, clip_length, num_chunks, cl) ==
    LET N == Len(local_score_clip)
        start_index(w) ==
            (N * (w - 1) * cl * TimeDen) \div clip_length
        end_index(w) == (N * w * cl * TimeDen) \div clip_length
        Scores(w) ==
            {local_score_clip[j + 1] : j \in start_index(w)..(end_index(w) - 1)}
    IN  IF cl = 0
        THEN [exc |-> "ValueError", scores |-> <<>>]  \* range() step of zero
        ELSE IF \E w \in 1..num_chunks :
                    end_index(w) > start_index(w) /\ end_index(w) > N
        THEN [exc |-> "IndexError", scores |-> <<>>]
        ELSE [exc |-> "none",
              scores |-> [w \in 1..num_chunks |->
                  CHOOSE m \in Scores(w) \cup {0} :
                      \A x \in Scores(w) \cup {0} : x <= m]]

\* the loop over the clips of get_confidence_array from clip k on;
\* i is the value the loop variable i was left with by the clips before
RECURSIVE ConfidenceLoop(_, _, _, _, _, _)
ConfidenceLoop(scores, chunked_df, chunk_size_list, k, max_scores, i) ==
    LET items == UniqueIndex(chunked_df)
        clip_df == ItemRows(chunked_df, items[k])
        duration_of_clip == clip_df[1].CLIP_LENGTH
        num_chunks == duration_of_clip \div (ConfidenceChunk * TimeDen)
        int_duration == Trunc(clip_df[1].DURATION, TimeDen)
        windows == WindowScores(scores[items[k][2]],
                                duration_of_clip, num_chunks, int_duration)
    IN  IF k > Len(items)
        THEN [exc |-> "none", array |-> max_scores]
        ELSE IF items[k][2] \notin DOMAIN scores
        THEN [exc |-> "KeyError", array |-> <<>>]
        ELSE IF num_chunks # chunk_size_list[k][1]
        THEN \* the second print reads chunk_size_list[i], then break
             IF i = Unbound
             THEN [exc |-> "UnboundLocalError", array |-> <<>>]
             ELSE IF i >= Len(chunk_size_list)
             THEN [exc |-> "IndexError", array |-> <<>>]
             ELSE [exc |-> "none", array |-> max_scores]
        ELSE IF windows.exc # "none"
        THEN [exc |-> windows.exc, array |-> <<>>]
        ELSE ConfidenceLoop(scores, chunked_df, chunk_size_list,
                            k + 1, max_scores \o windows.scores,
                            IF num_chunks >= 1
                            THEN (num_chunks - 1) * int_duration ELSE i)

\* get_confidence_array(local_scores_array, chunked_df, chunk_size_list)
get_confidence_array(local_scores_array, chunked_df, chunk_size_list) ==
    ConfidenceLoop(local_scores_array, chunked_df, chunk_size_list, 1,
                   <<>>, Unbound)

\* generate_ROC_curves up to the call of metrics.roc_curve: the two arrays
\* handed to it, or the exception raised before
generate_ROC_curves(a_df, m_df, scores, cl) ==
    LET m_shared == InFilesOf(m_df, a_df)
        a_shared == InFilesOf(a_df, m_shared)
        auto_chunked_df == annotation_chunker(a_shared, cl)
        manual_chunked_df == annotation_chunker(m_shared, cl)
        sorted_df == SortByFile(manual_chunked_df.rows)
        target == get_target_annotations(sorted_df, cl)
        confidence ==
            get_confidence_array(scores, sorted_df, target.chunk_size_list)
        Raise(e) == [exc |-> e, target_array |-> <<>>,
                     confidence_scores_array |-> <<>>]
    IN  IF auto_chunked_df.exc # "none" THEN Raise(auto_chunked_df.exc)
        ELSE IF manual_chunked_df.exc # "none"
        THEN Raise(manual_chunked_df.exc)
        ELSE IF confidence.exc # "none" THEN Raise(confidence.exc)
        ELSE [exc |-> "none",
              target_array |-> target.target_score_array,
              confidence_scores_array |-> confidence.array]

\* generate_ROC_curves_raw_local up to the call of metrics.roc_curve
generate_ROC_curves_raw_local(a_df, m_df, scores) ==
    LET m_shared == InFilesOf(m_df, a_df)
        items == UniqueIndex(m_shared)
        local_score_clip(k) == scores[items[k][2]]
        duration_of_clip(k) == ItemRows(m_shared, items[k])[1].CLIP_LENGTH
        target_clip(k) ==
            [n \in 1..Len(local_score_clip(k)) |->
                IF AnnotationsAtTime(m_shared, n - 1, duration_of_clip(k),
                                     Len(local_score_clip(k)))
                THEN 1 ELSE 0]
    IN  IF \E k \in 1..Len(items) : items[k][2] \notin DOMAIN scores
        THEN [exc |-> "KeyError", target_array |-> <<>>,
              confidence_scores_array |-> <<>>]
        ELSE [exc |-> "none",
              target_array |->
                  Flatten([k \in 1..Len(items) |-> target_clip(k)]),
              confidence_scores_array |->
                  Flatten([k \in 1..Len(items) |-> local_score_clip(k)])]

----------------------------------------------------------------------------
(* SpecROC: one call of generate_ROC_curves or generate_ROC_curves_raw_local *)

ClipA == ConfidenceChunk * TimeDen
ClipB == (ConfidenceChunk + 1) * TimeDen

\* human annotations of one second at 0 s and at 2 s, in a clip of 3 s and
\* in a clip of 4 s
ManualROCRows ==
    {Row(Dir, Wav, ClipA, 1, off, TimeDen, "bird") : off \in {0, 2 * TimeDen}}
    \cup {Row(Dir, Wav2, ClipB, 1, off, TimeDen, "bird") :
        off \in {0, 2 * TimeDen}}

\* automated annotations of either clip, or of both
AutomatedROCTables ==
    {<<Row(Dir, Wav, ClipA, 1, 0, TimeDen, "bird")>>,
     <<Row(Dir, Wav2, ClipB, 1, 0, TimeDen, "bird")>>,
     <<Row(Dir, Wav, ClipA, 1, 0, TimeDen, "bird"),
       Row(Dir, Wav2, ClipB, 1, TimeDen, TimeDen, "bird")>>}

\* chunk lengths of 1 s, 2 s and 3 s
ROCChunkLengths == {s * TimeDen : s \in 1..ConfidenceChunk}

\* local scores below and above zero
ScoreValues == {-1, 1}

InitROC ==
    /\ IdleClip
    /\ IdleStats
    /\ IdleGlobal
    /\ pc = "start"
    /\ kaleidoscope_df = <<>>
    /\ output_df = <<>>
    /\ automated_df \in AutomatedROCTables
    /\ \E n \in 1..MaxChunkRows : manual_df \in Tables(ManualROCRows, n)
    /\ chunk_length \in ROCChunkLengths
    /\ local_scoress \in [{Wav, Wav2} -> [1..MaxScores -> ScoreValues]]
    /\ target_array = <<>>
    /\ confidence_scores_array = <<>>
    /\ exception = "none"

GenerateROCCurves ==
    /\ pc = "start"
    /\ LET roc == generate_ROC_curves(automated_df, manual_df, local_scoress,
                                      chunk_length)
       IN  /\ target_array' = roc.target_array
           /\ confidence_scores_array' = roc.confidence_scores_array
           /\ exception' = roc.exc
    /\ pc' = "roc_curve"
    /\ UNCHANGED <<automated_df, manual_df, stats_type, threshold, IoU_Matrix,
                   clip_stats_df, statistics_df, num_errors, num_processed,
                   global_df, kaleidoscope_df, chunk_length, output_df,
                   local_scoress>>

GenerateROCCurvesRawLocal ==
    /\ pc = "start"
    /\ LET roc == generate_ROC_curves_raw_local(automated_df, manual_df,
                                                local_scoress)
       IN  /\ target_array' = roc.target_array
           /\ confidence_scores_array' = roc.confidence_scores_array
           /\ exception' = roc.exc
    /\ pc' = "roc_curve_raw_local"
    /\ UNCHANGED <<automated_df, manual_df, stats_type, threshold, IoU_Matrix,
                   clip_stats_df, statistics_df, num_errors, num_processed,
                   global_df, kaleidoscope_df, chunk_length, output_df,
                   local_scoress>>

NextROC == GenerateROCCurves \/ GenerateROCCurvesRawLocal

SpecROC == InitROC /\ [][NextROC]_vars


----------------------------------------------------------------------------
(* Properties of SpecROC *)

\* the human table generate_ROC_curves chunks, and its chunks
SharedManual == InFilesOf(manual_df, automated_df)
ManualChunked == annotation_chunker(SharedManual, chunk_length)
ChunkedClips == UniqueIndex(ManualChunked.rows)
ChunkedDuration(k) ==
    ItemRows(ManualChunked.rows, ChunkedClips[k])[1].CLIP_LENGTH

\* the two chunk counts of a clip
TargetChunks(k) == ChunkedDuration(k) \div chunk_length
ConfidenceChunks(k) == ChunkedDuration(k) \div (ConfidenceChunk * TimeDen)

ChunkCountMismatch ==
    /\ ManualChunked.exc = "none"
    /\ \E k \in 1..Len(ChunkedClips) : TargetChunks(k) # ConfidenceChunks(k)

\* C16: in generate_ROC_curves, whenever the chunk count get_confidence_array
\* derives for a clip differs from the one get_target_annotations derived
\* for it, the call ends in an error: no confidence array cut short at the
\* mismatch is handed to the ROC computation.
C16_MismatchIsAnError ==
    (pc = "roc_curve" /\ ChunkCountMismatch) => exception # "none"

\* the total of the first n values of f
RECURSIVE Total(_, _)
Total(f, n) == IF n = 0 THEN 0 ELSE Total(f, n - 1) + f[n]

\* the clips of generate_ROC_curves_raw_local
RawClips == UniqueIndex(SharedManual)

\* C17: the target sequence and the confidence sequence handed to the ROC
\* computation have the same length, for every chunk length: in
\* generate_ROC_curves_raw_local the total length of the local-score curves
\* of the clips, in generate_ROC_curves one entry per chunk of every clip.
C17_EqualLengths ==
    /\ (pc = "roc_curve_raw_local" /\ exception = "none") =>
           /\ Len(target_array) = Len(confidence_scores_array)
           /\ Len(target_array) =
                  Total([k \in 1..Len(RawClips) |->
                            Len(local_scoress[RawClips[k][2]])],
                        Len(RawClips))
    /\ (pc = "roc_curve" /\ exception = "none") =>
           /\ Len(target_array) = Len(confidence_scores_array)
           /\ Len(target_array) =
                  Total([k \in 1..Len(ChunkedClips) |-> TargetChunks(k)],
                        Len(ChunkedClips))

\* C18: in generate_ROC_curves_raw_local, for a clip with a curve of N
\* samples and duration D, target[i] = 1 exactly when a human interval of
\* that clip has offset <= i * (D / N) <= offset + duration; the intervals
\* of the other clips have no influence.
C18_TargetOfOwnClip ==
    (pc = "roc_curve_raw_local" /\ exception = "none") =>
        target_array =
            Flatten([k \in 1..Len(RawClips) |->
                LET clip_manual_df == ItemRows(SharedManual, RawClips[k])
                    N == Len(local_scoress[RawClips[k][2]])
                IN  [n \in 1..N |->
                        IF AnnotationsAtTime(clip_manual_df, n - 1,
                                             clip_manual_df[1].CLIP_LENGTH, N)
                        THEN 1 ELSE 0]])

\* the samples j of a curve whose instant j * (D / N) lies in window w
\* (counted from 1) of length cl: (w - 1) * cl <= j * (D / N) < w * cl
SamplesInWindow(curve, D, w, cl) ==
    {j \in 1..Len(curve) :
        /\ (w - 1) * cl * Len(curve) <= (j - 1) * D
        /\ (j - 1) * D < w * cl * Len(curve)}

\* for every entry get_confidence_array emits, in order: the scores of the
\* samples of its window
WindowSamples ==
    Flatten([k \in 1..Len(ChunkedClips) |->
        LET curve == local_scoress[ChunkedClips[k][2]]
        IN  [w \in 1..ConfidenceChunks(k) |->
                {curve[j] : j \in SamplesInWindow(curve, ChunkedDuration(k), w,
                                                  chunk_length)}]])

\* C19: every confidence get_confidence_array emits for a window
\* [k * chunk_length, (k + 1) * chunk_length) of a clip is the maximum of
\* exactly the local-score samples whose instant lies in that window.
C19_WindowMaximum ==
    (pc = "roc_curve" /\ exception = "none") =>
        \A e \in 1..Len(confidence_scores_array) :
            WindowSamples[e] # {} =>
                /\ confidence_scores_array[e] \in WindowSamples[e]
                /\ \A x \in WindowSamples[e] : x <= confidence_scores_array[e]


\* C25: in generate_ROC_curves, for every clip of the chunked human table
\* and every chunk index k below floor(clip length / chunk size), the target
\* of index k is 1 exactly when the chunked table holds a row of that clip
\* with OFFSET = k * chunk size; a positive chunk does not make the target
\* of the chunk after it positive.
C25_TargetOfOwnChunk ==
    (pc = "roc_curve" /\ exception = "none") =>
        target_array =
            Flatten([c \in 1..Len(ChunkedClips) |->
                LET clip_df == ItemRows(ManualChunked.rows, ChunkedClips[c])
                IN  [n \in 1..TargetChunks(c) |->
                        IF \E r \in 1..Len(clip_df) :
                               clip_df[r].OFFSET = (n - 1) * chunk_length
                        THEN 1 ELSE 0]])


=============================================================================
